---- MODULE Spec2Model ----
(***************************************************************************)
(* A model of anzu's Lagrangian field pipeline, fields/make_lagfields.py:  *)
(* the slab decomposition, the spectral kernels, MPI_mean and the control  *)
(* flow of make_lagfields over a group of MPI workers.                     *)
(*                                                                         *)
(* Four specifications share the module, one per part of the program:      *)
(*   SpecDecomp   the slab rule rank*nmesh//nranks : (rank+1)*nmesh//nranks *)
(*   SpecKernels  the wavenumber grids and the Fourier multipliers          *)
(*   SpecMean     MPI_mean (Gather to root 0, Bcast from root 0)            *)
(*   Spec         make_lagfields, one process per worker                    *)
(* A specification leaves the variables of the other parts at their idle   *)
(* values.                                                                 *)
(***************************************************************************)
EXTENDS Integers, Sequences, FiniteSets, TLC

VARIABLES
    \* ---- slab decomposition (SpecDecomp)
    d_nmesh,      \* nmesh
    d_nranks,     \* nranks = comm.Get_size()
    d_slab,       \* rank -> <<start, end>> once the rank has sliced, <<>> before
    d_tidesq,     \* rank -> <<thickness>> of the tidesq buffer once allocated
    \* ---- spectral kernels (SpecKernels)
    k_nmesh,      \* nmesh
    k_nranks,     \* nranks
    k_delta,      \* <<zero mode, other modes>> of delta_k (fhat)
    k_table,      \* <<t0, t1>>: the tabulated transfer function
    k_pc,         \* rank -> the kernel the rank runs next
    k_tide,       \* rank -> local cell -> the 6 multipliers karray, as fractions
    k_grad,       \* rank -> local cell -> ksqdelta
    k_transfer,   \* rank -> local cell -> transfer_k
    \* ---- MPI_mean (SpecMean)
    m_nmesh,      \* nmesh
    m_nranks,     \* nranks
    m_procsum,    \* rank -> np.sum(array) of the rank's slab
    m_recvbuf,    \* root's recvbuf: rank -> <<value>> once gathered, <<>> before
    m_fieldmean,  \* rank -> fieldmean, a fraction <<num, den>>, or <<>>
    m_pc,         \* rank -> position inside MPI_mean
    m_ret,        \* rank -> <<returned value>>, or <<>>
    \* ---- make_lagfields (Spec)
    p_cfg,        \* configs, save_to_disk, z and the worker count
    p_input_ok,   \* rank -> whether the rank can load the input field
    p_pc,         \* rank -> the collective the rank last entered
    p_err,        \* rank -> the exception the rank raised, "" if none
    p_kcut,       \* rank -> gaussian_kcut: <<value>>, or <<>> while unbound
    p_kcut_used,  \* rank -> the kcut of every gaussian_filter call made
    p_loc,        \* rank -> the arrays u, d2, v, ns the rank holds
    p_ics,        \* the initial-conditions container's *_filt datasets
    p_out,        \* the shared output container, <<>> while it does not exist
    p_flat,       \* what the flattening step did: <<>> before it ran
    \* ---- the accumulation loop of delta_to_tidesq (SpecTide)
    t_real,       \* the six real_out values at one grid cell, in jvec's order
    t_i,          \* the loop index i (0-based); 6 once the loop has ended
    t_tidesq      \* tidesq at that cell

dvars == <<d_nmesh, d_nranks, d_slab, d_tidesq>>
kvars == <<k_nmesh, k_nranks, k_delta, k_table, k_pc, k_tide, k_grad, k_transfer>>
mvars == <<m_nmesh, m_nranks, m_procsum, m_recvbuf, m_fieldmean, m_pc, m_ret>>
pvars == <<p_cfg, p_input_ok, p_pc, p_err, p_kcut, p_kcut_used, p_loc, p_ics,
           p_out, p_flat>>
tvars == <<t_real, t_i, t_tidesq>>
vars == <<dvars, kvars, mvars, pvars, tvars>>

(***************************************************************************)
(* Bounds of the model.                                                    *)
(***************************************************************************)
DecompMaxRanks == 4
DecompMaxMesh == 8
MeanMaxRanks == 3
MeanMaxMesh == 3
MeanMaxSum == 2
KernMaxRanks == 2
KernMaxMesh == 4
KernMaxAmp == 1
KernMaxT == 2
PipeMaxRanks == 2
PipeMaxMesh == 3
PipeMaxCutoff == 1
TideMaxVal == 1

Ranks(nranks) == 0 .. (nranks - 1)

(***************************************************************************)
(* Idle values of each part.                                               *)
(***************************************************************************)
DecompIdle ==
    /\ d_nmesh = 0
    /\ d_nranks = 0
    /\ d_slab = <<>>
    /\ d_tidesq = <<>>

KernelsIdle ==
    /\ k_nmesh = 0
    /\ k_nranks = 0
    /\ k_delta = <<>>
    /\ k_table = <<>>
    /\ k_pc = <<>>
    /\ k_tide = <<>>
    /\ k_grad = <<>>
    /\ k_transfer = <<>>

MeanIdle ==
    /\ m_nmesh = 0
    /\ m_nranks = 0
    /\ m_procsum = <<>>
    /\ m_recvbuf = <<>>
    /\ m_fieldmean = <<>>
    /\ m_pc = <<>>
    /\ m_ret = <<>>

PipeIdle ==
    /\ p_cfg = <<>>
    /\ p_input_ok = <<>>
    /\ p_pc = <<>>
    /\ p_err = <<>>
    /\ p_kcut = <<>>
    /\ p_kcut_used = <<>>
    /\ p_loc = <<>>
    /\ p_ics = <<>>
    /\ p_out = <<>>
    /\ p_flat = <<>>

TideIdle ==
    /\ t_real = <<>>
    /\ t_i = 0
    /\ t_tidesq = 0

(***************************************************************************)
(* The slab rule.  Every slice in the file is                              *)
(*     [rank * nmesh // nranks : (rank + 1) * nmesh // nranks]             *)
(* where * and // associate to the left: (rank * nmesh) // nranks.         *)
(***************************************************************************)
SlabStartWholeQuotient(rank, nmesh, nranks) == rank * (nmesh \div nranks)

SlabStart(rank, nmesh, nranks) == (rank * nmesh) \div nranks

SlabEndWholeQuotient(rank, nmesh, nranks) == (rank + 1) * (nmesh \div nranks)

SlabEnd(rank, nmesh, nranks) == ((rank + 1) * nmesh) \div nranks

\* The planes a Python slice [start:end] selects.
SlabPlanes(rank, nmesh, nranks) ==
    SlabStart(rank, nmesh, nranks) .. (SlabEnd(rank, nmesh, nranks) - 1)

SlabLen(rank, nmesh, nranks) ==
    SlabEnd(rank, nmesh, nranks) - SlabStart(rank, nmesh, nranks)

\* The first extent of np.zeros((nmesh // nranks, nmesh, nmesh)) in delta_to_tidesq.
TidesqThickness(nmesh, nranks) == nmesh \div nranks

(***************************************************************************)
(* SpecDecomp: every rank slices the mesh with the slab rule.              *)
(***************************************************************************)
DecompInit ==
    /\ d_nranks \in 1 .. DecompMaxRanks
    /\ d_nmesh \in d_nranks .. DecompMaxMesh
    /\ d_slab = [r \in Ranks(d_nranks) |-> <<>>]
    /\ d_tidesq = [r \in Ranks(d_nranks) |-> <<>>]
    /\ KernelsIdle
    /\ MeanIdle
    /\ PipeIdle
    /\ TideIdle

\* u[:] = -bigmesh[rank * nmesh // nranks : (rank + 1) * nmesh // nranks, :, :]
SliceSlab(r) ==
    /\ d_slab[r] = <<>>
    /\ d_slab' = [d_slab EXCEPT ![r] =
                    <<SlabStart(r, d_nmesh, d_nranks), SlabEnd(r, d_nmesh, d_nranks)>>]
    /\ UNCHANGED <<d_nmesh, d_nranks, d_tidesq, kvars, mvars, pvars, tvars>>

\* tidesq = np.zeros((nmesh // nranks, nmesh, nmesh), dtype="float32")
AllocTidesq(r) ==
    /\ d_tidesq[r] = <<>>
    /\ d_tidesq' = [d_tidesq EXCEPT ![r] = <<TidesqThickness(d_nmesh, d_nranks)>>]
    /\ UNCHANGED <<d_nmesh, d_nranks, d_slab, kvars, mvars, pvars, tvars>>

DecompNext ==
    \/ \E r \in Ranks(d_nranks) : SliceSlab(r)
    \/ \E r \in Ranks(d_nranks) : AllocTidesq(r)

SpecDecomp == DecompInit /\ [][DecompNext]_vars

\* The planes of a sliced rank.
PlanesOf(r) == d_slab[r][1] .. (d_slab[r][2] - 1)

DecompAllSliced == \A r \in Ranks(d_nranks) : d_slab[r] # <<>>

\* C7: for nmesh >= worker_count the ranges of all ranks are each non-empty,
\* pairwise disjoint, and their union is exactly [0, nmesh).
C7_DecompositionCoverage ==
    /\ \A r \in Ranks(d_nranks) :
          d_slab[r] # <<>> =>
             /\ d_slab[r][1] < d_slab[r][2]
             /\ PlanesOf(r) \subseteq 0 .. (d_nmesh - 1)
             /\ \A q \in Ranks(d_nranks) :
                   (q # r /\ d_slab[q] # <<>>) => PlanesOf(r) \cap PlanesOf(q) = {}
    /\ DecompAllSliced =>
          UNION {PlanesOf(r) : r \in Ranks(d_nranks)} = 0 .. (d_nmesh - 1)

\* A run where several workers have all sliced a mesh their count does not divide.
C7_Witness ==
    /\ d_nranks >= 3
    /\ d_nmesh % d_nranks # 0
    /\ DecompAllSliced

NotDivisible == d_nmesh % d_nranks # 0

Floor == d_nmesh \div d_nranks

Owned(r) == d_slab[r][2] - d_slab[r][1]

LastRank == d_nranks - 1

\* C8 as claimed: when worker_count does not divide nmesh, every worker but the
\* last owns floor(nmesh/worker_count) planes and the last owns the floor plus
\* the whole remainder.
C8_LastAbsorbsRemainder ==
    (NotDivisible /\ DecompAllSliced) =>
       /\ \A r \in Ranks(d_nranks) : r # LastRank => Owned(r) = Floor
       /\ Owned(LastRank) = Floor + (d_nmesh % d_nranks)

\* C8 as amended: when worker_count does not divide nmesh, every worker owns
\* floor(nmesh/worker_count) planes or one more, exactly nmesh mod worker_count
\* workers own one more, and the last worker is one of them.
C8_RemainderSpread ==
    (NotDivisible /\ DecompAllSliced) =>
       /\ \A r \in Ranks(d_nranks) : Owned(r) \in {Floor, Floor + 1}
       /\ Cardinality({r \in Ranks(d_nranks) : Owned(r) = Floor + 1})
             = d_nmesh % d_nranks
       /\ Owned(LastRank) = Floor + 1

\* A run where a worker other than the last owns more than the floor.
C8_Witness ==
    /\ NotDivisible
    /\ DecompAllSliced
    /\ \E r \in Ranks(d_nranks) : r # LastRank /\ Owned(r) = Floor + 1

\* C12: for every nmesh >= worker_count and every rank, the thickness of the
\* tidesq buffer (nmesh // nranks) equals the length of the rank's slab.
C12_TidesqBufferMatchesSlab ==
    \A r \in Ranks(d_nranks) :
       (d_slab[r] # <<>> /\ d_tidesq[r] # <<>>) => d_tidesq[r][1] = Owned(r)

(***************************************************************************)
(* MPI_mean(array, nmesh).  Values that the code holds as floats are kept  *)
(* exact, as fractions <<numerator, denominator>>.                         *)
(***************************************************************************)
Frac(num, den) == <<num, den>>

FracEq(a, b) == a[1] * b[2] = b[1] * a[2]

RECURSIVE SumOver(_, _)
\* np.sum(recvbuf): the sum of buf[r][1] over the ranks in S.
SumOver(buf, S) ==
    IF S = {} THEN 0
    ELSE LET r == CHOOSE x \in S : TRUE
         IN  buf[r][1] + SumOver(buf, S \ {r})

\* fieldmean = np.ones(1) * np.sum(recvbuf) / nmesh ** 3     (rank 0)
RootFieldmean(recvbuf, nmesh) ==
    Frac(SumOver(recvbuf, DOMAIN recvbuf), nmesh * nmesh * nmesh)

\* fieldmean = np.ones(1)                                    (other ranks)
PlaceholderFieldmean == Frac(1, 1)

BcastKeepsOwnBuffer(own, rootbuf) == own

\* comm.Bcast(fieldmean, root=0): the buffer of a rank after the call.
BcastBuffer(own, rootbuf) == rootbuf

MeanInit ==
    /\ m_nranks \in 1 .. MeanMaxRanks
    /\ m_nmesh \in m_nranks .. MeanMaxMesh
    /\ m_procsum \in [Ranks(m_nranks) -> 0 .. MeanMaxSum]
    /\ m_recvbuf = [r \in Ranks(m_nranks) |-> <<>>]
    /\ m_fieldmean = [r \in Ranks(m_nranks) |-> <<>>]
    /\ m_pc = [r \in Ranks(m_nranks) |-> "gather"]
    /\ m_ret = [r \in Ranks(m_nranks) |-> <<>>]
    /\ DecompIdle
    /\ KernelsIdle
    /\ PipeIdle
    /\ TideIdle

\* comm.Gather(procsum, recvbuf, root=0) on a rank other than 0: the rank's
\* procsum leaves for root's recvbuf and the call returns; the rank then sets
\* its placeholder fieldmean and enters Bcast.
GatherSend(r) ==
    /\ r # 0
    /\ m_pc[r] = "gather"
    /\ m_recvbuf' = [m_recvbuf EXCEPT ![r] = <<m_procsum[r]>>]
    /\ m_fieldmean' = [m_fieldmean EXCEPT ![r] = PlaceholderFieldmean]
    /\ m_pc' = [m_pc EXCEPT ![r] = "bcast"]
    /\ UNCHANGED <<m_nmesh, m_nranks, m_procsum, m_ret, dvars, kvars, pvars, tvars>>

\* Rank 0 enters Gather with its own procsum and waits for the others.
GatherEnterRoot ==
    /\ m_pc[0] = "gather"
    /\ m_recvbuf' = [m_recvbuf EXCEPT ![0] = <<m_procsum[0]>>]
    /\ m_pc' = [m_pc EXCEPT ![0] = "gathering"]
    /\ UNCHANGED <<m_nmesh, m_nranks, m_procsum, m_fieldmean, m_ret, dvars, kvars, pvars, tvars>>

\* Gather returns on rank 0 once every rank's procsum has arrived; rank 0
\* computes fieldmean and enters Bcast.
GatherReturnRoot ==
    /\ m_pc[0] = "gathering"
    /\ \A r \in Ranks(m_nranks) : m_recvbuf[r] # <<>>
    /\ m_fieldmean' = [m_fieldmean EXCEPT ![0] = RootFieldmean(m_recvbuf, m_nmesh)]
    /\ m_pc' = [m_pc EXCEPT ![0] = "bcast"]
    /\ UNCHANGED <<m_nmesh, m_nranks, m_procsum, m_recvbuf, m_ret, dvars, kvars, pvars, tvars>>

\* comm.Bcast(fieldmean, root=0) and return fieldmean[0].  Root's buffer is the
\* source; another rank's call returns once root has entered Bcast.
Bcast(r) ==
    /\ m_pc[r] = "bcast"
    /\ m_pc[0] \in {"bcast", "done"}
    /\ LET buf == IF r = 0 THEN m_fieldmean[0]
                  ELSE BcastBuffer(m_fieldmean[r], m_fieldmean[0])
       IN  /\ m_fieldmean' = [m_fieldmean EXCEPT ![r] = buf]
           /\ m_ret' = [m_ret EXCEPT ![r] = <<buf>>]
    /\ m_pc' = [m_pc EXCEPT ![r] = "done"]
    /\ UNCHANGED <<m_nmesh, m_nranks, m_procsum, m_recvbuf, dvars, kvars, pvars, tvars>>

MeanNext ==
    \/ \E r \in Ranks(m_nranks) : GatherSend(r)
    \/ GatherEnterRoot
    \/ GatherReturnRoot
    \/ \E r \in Ranks(m_nranks) : Bcast(r)

SpecMean == MeanInit /\ [][MeanNext]_vars

MeanTotal == SumOver([r \in Ranks(m_nranks) |-> <<m_procsum[r]>>], Ranks(m_nranks))

MeanCube == m_nmesh * m_nmesh * m_nmesh

\* C9: every worker that has returned from MPI_mean returns the sum of all
\* workers' local sums divided by nmesh^3, so all returned values are
\* identical, and a non-root worker returns its placeholder 1 only when the
\* mean is 1.
C9_MeanBroadcast ==
    \A r \in Ranks(m_nranks) :
       m_ret[r] # <<>> =>
          /\ FracEq(m_ret[r][1], Frac(MeanTotal, MeanCube))
          /\ \A q \in Ranks(m_nranks) : m_ret[q] # <<>> => m_ret[q] = m_ret[r]
          /\ (MeanTotal # MeanCube) => ~FracEq(m_ret[r][1], PlaceholderFieldmean)

\* All of several workers have returned, their local sums differ, and the mean
\* is not the placeholder value.
C9_Witness ==
    /\ m_nranks >= 2
    /\ \A r \in Ranks(m_nranks) : m_pc[r] = "done" /\ m_ret[r] # <<>>
    /\ \E r \in Ranks(m_nranks) : m_procsum[r] # m_procsum[0]
    /\ MeanTotal # 0
    /\ MeanTotal # MeanCube

(***************************************************************************)
(* The wavenumber grids.  Every kernel builds                              *)
(*     kvals    = np.fft.fftfreq(nmesh)  * (2 pi nmesh) / lbox             *)
(*     kvalsmpi = kvals[rank*nmesh//nranks : (rank+1)*nmesh//nranks]       *)
(*     kvalsr   = np.fft.rfftfreq(nmesh) * (2 pi nmesh) / lbox             *)
(*     kx, ky, kz = np.meshgrid(kvalsmpi, kvals, kvalsr)                   *)
(* Wavenumbers are integers here: the box has lbox = 2 pi, so that         *)
(* kvals[i] is the signed frequency index.  meshgrid's default indexing    *)
(* is 'xy': the arrays have shape (len(kvals), len(kvalsmpi), len(kvalsr)) *)
(* and at local cell <<a, b, c>>  kx = kvalsmpi[b], ky = kvals[a],         *)
(* kz = kvalsr[c].                                                         *)
(***************************************************************************)
\* np.fft.fftfreq(n)[i] * n : 0, 1, ..., (n-1)//2, -(n//2), ..., -1
kvals(i, nmesh) == IF i <= (nmesh - 1) \div 2 THEN i ELSE i - nmesh

kvalsmpi(b, rank, nmesh, nranks) == kvals(SlabStart(rank, nmesh, nranks) + b, nmesh)

\* np.fft.rfftfreq(n)[c] * n : 0, 1, ..., n//2
kvalsr(c, nmesh) == c

LocalCells(rank, nmesh, nranks) ==
    (0 .. (nmesh - 1))
       \X (0 .. (SlabLen(rank, nmesh, nranks) - 1))
       \X (0 .. (nmesh \div 2))

kx(cell, rank, nmesh, nranks) == kvalsmpi(cell[2], rank, nmesh, nranks)

ky(cell, nmesh) == kvals(cell[1], nmesh)

kz(cell, nmesh) == kvalsr(cell[3], nmesh)

\* kx ** 2 + ky ** 2 + kz ** 2
KSquared(cell, rank, nmesh, nranks) ==
    kx(cell, rank, nmesh, nranks) * kx(cell, rank, nmesh, nranks)
       + ky(cell, nmesh) * ky(cell, nmesh)
       + kz(cell, nmesh) * kz(cell, nmesh)

\* knorm = kx ** 2 + ky ** 2 + kz ** 2
\* if knorm[0][0][0] == 0: knorm[0][0][0] = 1
knorm(cell, rank, nmesh, nranks) ==
    IF cell = <<0, 0, 0>> /\ KSquared(cell, rank, nmesh, nranks) = 0
    THEN 1
    ELSE KSquared(cell, rank, nmesh, nranks)

\* kroneckerdelta(i, j) of common_functions
kroneckerdelta(i, j) == IF i = j THEN 1 ELSE 0

\* jvec = [[0, 0], [0, 1], [0, 2], [1, 1], [1, 2], [2, 2]]
jvec == << <<0, 0>>, <<0, 1>>, <<0, 2>>, <<1, 1>>, <<1, 2>>, <<2, 2>> >>

\* The component of k that klist pairs with axis number j of jvec.
KComponent(j, cell, rank, nmesh, nranks) ==
    CASE j = 0 -> kx(cell, rank, nmesh, nranks)
      [] j = 1 -> ky(cell, nmesh)
      [] j = 2 -> kz(cell, nmesh)

\* karray = klist[i][0] * klist[i][1] / knorm - kroneckerdelta(jvec[i][0], jvec[i][1]) / 3.0
karray(i, cell, rank, nmesh, nranks) ==
    LET kn == knorm(cell, rank, nmesh, nranks)
        ka == KComponent(jvec[i][1], cell, rank, nmesh, nranks)
        kb == KComponent(jvec[i][2], cell, rank, nmesh, nranks)
    IN  Frac(3 * ka * kb - kroneckerdelta(jvec[i][1], jvec[i][2]) * kn, 3 * kn)

\* delta_k at a local cell: the density's Fourier coefficient.
delta_k(cell, rank, nmesh, nranks) ==
    IF KSquared(cell, rank, nmesh, nranks) = 0 THEN k_delta[1] ELSE k_delta[2]

\* ksqdelta = -np.array(knorm * (delta_k), dtype="complex64")
ksqdelta(cell, rank, nmesh, nranks) ==
    -(knorm(cell, rank, nmesh, nranks) * delta_k(cell, rank, nmesh, nranks))

\* transfer_interp(k_norm): the tabulated transfer function at |k|.
transfer_interp(ksq) == k_table[1] + k_table[2] * ksq

\* transfer_k = transfer_interp(k_norm)
\* transfer_k[0][0][0] = 1
transfer_k(cell, rank, nmesh, nranks) ==
    IF cell = <<0, 0, 0>>
    THEN 1
    ELSE transfer_interp(KSquared(cell, rank, nmesh, nranks))

(***************************************************************************)
(* SpecKernels: every rank builds the multiplier grid of each kernel over  *)
(* its own slab of Fourier cells, in the order make_lagfields calls them.  *)
(***************************************************************************)
KernelsInit ==
    /\ k_nranks \in 1 .. KernMaxRanks
    /\ k_nmesh \in {n \in k_nranks .. KernMaxMesh : n >= 2}
    /\ k_delta \in (0 .. KernMaxAmp) \X (0 .. KernMaxAmp)
    /\ k_table \in (1 .. KernMaxT) \X (0 .. 1)
    /\ k_pc = [r \in Ranks(k_nranks) |-> "transfer"]
    /\ k_tide = [r \in Ranks(k_nranks) |-> <<>>]
    /\ k_grad = [r \in Ranks(k_nranks) |-> <<>>]
    /\ k_transfer = [r \in Ranks(k_nranks) |-> <<>>]
    /\ DecompIdle
    /\ MeanIdle
    /\ PipeIdle
    /\ TideIdle

apply_transfer_function(r) ==
    /\ k_pc[r] = "transfer"
    /\ k_transfer' = [k_transfer EXCEPT ![r] =
          [cell \in LocalCells(r, k_nmesh, k_nranks) |->
              transfer_k(cell, r, k_nmesh, k_nranks)]]
    /\ k_pc' = [k_pc EXCEPT ![r] = "tidesq"]
    /\ UNCHANGED <<k_nmesh, k_nranks, k_delta, k_table, k_tide, k_grad, dvars, mvars, pvars, tvars>>

delta_to_tidesq(r) ==
    /\ k_pc[r] = "tidesq"
    /\ k_tide' = [k_tide EXCEPT ![r] =
          [cell \in LocalCells(r, k_nmesh, k_nranks) |->
              [i \in 1 .. 6 |-> karray(i, cell, r, k_nmesh, k_nranks)]]]
    /\ k_pc' = [k_pc EXCEPT ![r] = "gradsq"]
    /\ UNCHANGED <<k_nmesh, k_nranks, k_delta, k_table, k_grad, k_transfer, dvars, mvars, pvars, tvars>>

delta_to_gradsqdelta(r) ==
    /\ k_pc[r] = "gradsq"
    /\ k_grad' = [k_grad EXCEPT ![r] =
          [cell \in LocalCells(r, k_nmesh, k_nranks) |->
              ksqdelta(cell, r, k_nmesh, k_nranks)]]
    /\ k_pc' = [k_pc EXCEPT ![r] = "done"]
    /\ UNCHANGED <<k_nmesh, k_nranks, k_delta, k_table, k_tide, k_transfer, dvars, mvars, pvars, tvars>>

KernelsNext ==
    \/ \E r \in Ranks(k_nranks) : apply_transfer_function(r)
    \/ \E r \in Ranks(k_nranks) : delta_to_tidesq(r)
    \/ \E r \in Ranks(k_nranks) : delta_to_gradsqdelta(r)

SpecKernels == KernelsInit /\ [][KernelsNext]_vars

\* The cells of rank r whose wavenumber is zero.
ZeroCells(r) ==
    {cell \in LocalCells(r, k_nmesh, k_nranks) : KSquared(cell, r, k_nmesh, k_nranks) = 0}

\* C2: on every rank the only cell whose transfer value is overridden to 1 is
\* the zero-wavenumber cell; every other cell keeps its interpolated value.
C2_OnlyZeroModeOverridden ==
    \A r \in Ranks(k_nranks) :
       k_transfer[r] # <<>> =>
          \A cell \in LocalCells(r, k_nmesh, k_nranks) :
             k_transfer[r][cell] =
                IF cell \in ZeroCells(r)
                THEN 1
                ELSE transfer_interp(KSquared(cell, r, k_nmesh, k_nranks))

\* C3: the Laplacian multiplies every Fourier mode by -k^2, the zero mode by 0,
\* so the zero mode of nablasq (and with it the sum of nablasq over the grid,
\* which is nmesh^3 times the zero mode) is 0.
C3_LaplacianTrueWavenumber ==
    \A r \in Ranks(k_nranks) :
       k_grad[r] # <<>> =>
          /\ \A cell \in LocalCells(r, k_nmesh, k_nranks) :
                k_grad[r][cell] =
                   -(KSquared(cell, r, k_nmesh, k_nranks)
                        * delta_k(cell, r, k_nmesh, k_nranks))
          /\ \A cell \in ZeroCells(r) : k_grad[r][cell] = 0

\* The sum of the three diagonal multipliers xx, yy, zz (entries 1, 4, 6 of
\* jvec) at a cell, as a fraction over their common denominator.
DiagonalSum(r, cell) ==
    Frac(k_tide[r][cell][1][1] + k_tide[r][cell][4][1] + k_tide[r][cell][6][1],
         k_tide[r][cell][1][2])

\* C4: at every Fourier cell of every rank, the zero-wavenumber cell included,
\* the three diagonal multipliers k_i*k_i/k^2 - 1/3 sum to 0.
C4_TidalTensorTraceless ==
    \A r \in Ranks(k_nranks) :
       k_tide[r] # <<>> =>
          \A cell \in LocalCells(r, k_nmesh, k_nranks) :
             FracEq(DiagonalSum(r, cell), Frac(0, 1))

(***************************************************************************)
(* make_lagfields(configs, save_to_disk, z), one process per MPI worker.   *)
(*                                                                         *)
(* A worker's position p_pc is the collective call it last entered; it     *)
(* leaves a collective only when every worker has entered it.  An action   *)
(* is the code a worker runs from the return of one collective to its      *)
(* entry into the next, and what the worker does inside that next call     *)
(* before it blocks (a collective write stores the worker's slab, then     *)
(* blocks in the collective close of the file).  A worker that raises      *)
(* keeps its position and never enters another collective.                 *)
(*                                                                         *)
(* Arrays are known by what they hold: a name for the field, and for a     *)
(* stored plane the run that wrote it.  A distributed array (newDistArray) *)
(* spans the worker's planes under the slab rule.  Cutoffs are in units of *)
(* pi / Lbox, where the default pi * nmesh / Lbox is nmesh.                *)
(***************************************************************************)
Workers == Ranks(p_cfg.nranks)

Planes == 0 .. (p_cfg.nmesh - 1)

MyPlanes(w) == SlabPlanes(w, p_cfg.nmesh, p_cfg.nranks)

\* The collectives of make_lagfields in program order; "start", "flatten" and
\* "done" are the positions before, between and after them.
Labels ==
    << "start", "ics_open", "pfft", "sdg_fft", "filt_u", "save_delta_filt",
       "save_dx_filt", "save_dy_filt", "save_dz_filt", "reload", "mean_d2",
       "write_deltasq", "write_delta", "fft_forward", "tide_fft1",
       "tide_fft_rest", "mean_v", "write_tidesq", "grad_fft", "write_nablasq",
       "flatten", "done" >>

Idx(l) == CHOOSE i \in 1 .. Len(Labels) : Labels[i] = l

\* Every worker has entered collective l.
Arrived(l) == \A v \in Workers : Idx(p_pc[v]) >= Idx(l)

\* Worker w is alive inside collective l and the collective can return.
Returns(w, l) ==
    /\ p_pc[w] = l
    /\ p_err[w] = ""
    /\ Arrived(l)

OutNames == {"deltasq", "delta", "tidesq", "nablasq"}

FiltNames == {"DM_delta_filt", "DM_dx_filt", "DM_dy_filt", "DM_dz_filt"}

\* A dataset after worker w has stored its slab: a dataset that did not exist
\* is created with the other planes unwritten.
StoreSlab(ds, w, kind) ==
    [pl \in Planes |->
        IF pl \in MyPlanes(w) THEN <<kind, "this run">>
        ELSE IF ds = <<>> THEN <<"unwritten", "this run">>
        ELSE ds[pl]]

\* The output container after worker w's  <array>.write(outdir + basename, name, step=2):
\* the file is opened in append mode (created when absent) and the dataset
\* required, not created, so a container left by an earlier run is overwritten
\* slab by slab.
WriteOut(out, w, name, kind) ==
    LET file == IF out = <<>> THEN [n \in OutNames |-> <<>>] ELSE out
    IN  [file EXCEPT ![name] = StoreSlab(file[name], w, kind)]

\* ics.create_dataset(name, ...) raises when the dataset already exists: it
\* exists when an earlier run left it; the workers of this run create it together.
CreateFails(name) ==
    /\ p_ics[name] # <<>>
    /\ \E pl \in Planes : p_ics[name][pl][2] # "this run"

\* if compute_cv_surrogate: ... if configs["surrogate_gaussian_cutoff"]:
\*     gaussian_kcut = np.pi * nmesh / Lbox
gaussian_kcut ==
    IF p_cfg.compute_cv_surrogate /\ p_cfg.surrogate_gaussian_cutoff # 0
    THEN <<p_cfg.nmesh>>
    ELSE <<>>

(***************************************************************************)
(* Entries: what a worker does on its way into the next collective.  Each  *)
(* sets p_pc, p_err, p_loc, p_kcut_used, p_ics and p_out.                  *)
(***************************************************************************)
Goto(w, l, loc) ==
    /\ p_pc' = [p_pc EXCEPT ![w] = l]
    /\ p_loc' = [p_loc EXCEPT ![w] = loc]
    /\ UNCHANGED <<p_err, p_kcut_used, p_ics, p_out>>

Raise(w, e, loc) ==
    /\ p_err' = [p_err EXCEPT ![w] = e]
    /\ p_loc' = [p_loc EXCEPT ![w] = loc]
    /\ UNCHANGED <<p_pc, p_kcut_used, p_ics, p_out>>

\* d2[:] = u * u ;  dmean = MPI_mean(d2, nmesh)
EnterMeanDeltasq(w, loc) == Goto(w, "mean_d2", [loc EXCEPT !.d2 = "u*u"])

\* with h5py.File(lindir, "a", ...) as ics:
\*     dset = ics.create_dataset(name, ...) ; dset[slab] = <filtered>[:]
EnterSaveFiltered(w, name, l, loc) ==
    IF CreateFails(name)
    THEN Raise(w, "ValueError", loc)
    ELSE /\ p_ics' = [p_ics EXCEPT ![name] = StoreSlab(p_ics[name], w, name)]
         /\ p_pc' = [p_pc EXCEPT ![w] = l]
         /\ p_loc' = [p_loc EXCEPT ![w] = loc]
         /\ UNCHANGED <<p_err, p_out>>

\* <name> = gaussian_filter(<array>, nmesh, Lbox, rank, nranks, fft, gaussian_kcut)
\* reads the local gaussian_kcut, unbound when no branch assigned it.
EnterGaussianFilter(w, l, loc) ==
    IF p_kcut[w] = <<>>
    THEN Raise(w, "UnboundLocalError", loc)
    ELSE /\ p_kcut_used' = [p_kcut_used EXCEPT ![w] = @ \cup {p_kcut[w][1]}]
         /\ p_pc' = [p_pc EXCEPT ![w] = l]
         /\ p_loc' = [p_loc EXCEPT ![w] = loc]
         /\ UNCHANGED <<p_err, p_ics, p_out>>

\* gaussian_filter on a displacement, then the write of its *_filt dataset.
EnterFilterAndSave(w, name, l, loc) ==
    IF p_kcut[w] = <<>>
    THEN Raise(w, "UnboundLocalError", loc)
    ELSE /\ p_kcut_used' = [p_kcut_used EXCEPT ![w] = @ \cup {p_kcut[w][1]}]
         /\ IF CreateFails(name)
            THEN /\ p_err' = [p_err EXCEPT ![w] = "ValueError"]
                 /\ UNCHANGED <<p_pc, p_ics>>
            ELSE /\ p_ics' = [p_ics EXCEPT ![name] = StoreSlab(p_ics[name], w, name)]
                 /\ p_pc' = [p_pc EXCEPT ![w] = l]
                 /\ UNCHANGED p_err
         /\ p_loc' = [p_loc EXCEPT ![w] = loc]
         /\ UNCHANGED p_out

\* if compute_cv_surrogate: u_filt = gaussian_filter(u, ...)   else: d2[:] = u * u
EnterSurrogateOrMean(w, loc) ==
    IF p_cfg.compute_cv_surrogate
    THEN EnterGaussianFilter(w, "filt_u", loc)
    ELSE EnterMeanDeltasq(w, loc)

\* if scale_dependent_growth: assert z is not None ; u = apply_scale_dependent_growth(...)
EnterGrowthOrOn(w, loc) ==
    IF p_cfg.scale_dependent_growth
    THEN IF p_cfg.z_given
         THEN Goto(w, "sdg_fft", loc)
         ELSE Raise(w, "AssertionError", loc)
    ELSE EnterSurrogateOrMean(w, loc)

\* <array>.write(outdir + "{}_{}.h5".format(basename, nmesh), name, step=2)
EnterWrite(w, name, kind, l, loc) ==
    /\ p_out' = WriteOut(p_out, w, name, kind)
    /\ p_pc' = [p_pc EXCEPT ![w] = l]
    /\ p_loc' = [p_loc EXCEPT ![w] = loc]
    /\ UNCHANGED <<p_err, p_kcut_used, p_ics>>

\* if configs["np_weightfields"]: if rank == 0: ...   else: ... ; return u, d2, v, ns
EnterFlattenOrDone(w, loc) ==
    IF p_cfg.np_weightfields /\ w = 0
    THEN Goto(w, "flatten", loc)
    ELSE Goto(w, "done", loc)

(***************************************************************************)
(* Spec: the runs of make_lagfields.                                       *)
(***************************************************************************)
Configs ==
    [nranks : 1 .. PipeMaxRanks,
     nmesh : 2 .. PipeMaxMesh,
     ic_format : {"monofonic", "binary"},
     compute_cv_surrogate : BOOLEAN,
     surrogate_gaussian_cutoff : 0 .. PipeMaxCutoff,   \* 0: unset
     scale_dependent_growth : BOOLEAN,
     z_given : BOOLEAN,                                \* z is not None
     save_to_disk : BOOLEAN,
     np_weightfields : BOOLEAN]

\* A container that an earlier run wrote and did not flatten.
StaleOut == [n \in OutNames |-> [pl \in Planes |-> <<n, "earlier run">>]]

\* The *_filt datasets that an earlier surrogate run created.
StaleIcs == [n \in FiltNames |-> [pl \in Planes |-> <<n, "earlier run">>]]

Init ==
    /\ p_cfg \in {c \in Configs :
                    /\ c.nmesh >= c.nranks
                    /\ ~c.compute_cv_surrogate => c.surrogate_gaussian_cutoff = 0
                    /\ ~c.scale_dependent_growth => ~c.z_given}
    \* One shared initial-conditions file is there for all workers or for none;
    \* linICfield.npy is opened by each worker on its own.
    /\ p_input_ok \in {f \in [Workers -> BOOLEAN] :
                         p_cfg.ic_format = "monofonic" => \A v \in Workers : f[v] = f[0]}
    /\ p_pc = [w \in Workers |-> "start"]
    /\ p_err = [w \in Workers |-> ""]
    /\ p_kcut = [w \in Workers |-> <<>>]
    /\ p_kcut_used = [w \in Workers |-> {}]
    /\ p_loc = [w \in Workers |-> [u |-> "", d2 |-> "", v |-> "", ns |-> ""]]
    \* The *_filt datasets are absent, or an earlier surrogate run of the same
    \* initial-conditions file left them.
    /\ p_ics \in {[n \in FiltNames |-> <<>>]}
                 \cup {ics \in {StaleIcs} :
                          p_cfg.ic_format = "monofonic" /\ p_input_ok[0]}
    /\ p_out \in {<<>>, StaleOut}
    /\ p_flat = <<>>
    /\ DecompIdle
    /\ KernelsIdle
    /\ MeanIdle
    /\ TideIdle

\* Lines 231-260: read the configuration, bind gaussian_kcut, and open the
\* input: collectively (monofonic), or each worker its own np.load.
Start(w) ==
    /\ p_pc[w] = "start"
    /\ p_err[w] = ""
    /\ p_kcut' = [p_kcut EXCEPT ![w] = gaussian_kcut]
    /\ IF p_cfg.ic_format = "monofonic"
       THEN Goto(w, "ics_open", p_loc[w])
       ELSE IF p_input_ok[w]
            THEN Goto(w, "pfft", p_loc[w])
            ELSE Raise(w, "MissingInput", p_loc[w])
    /\ UNCHANGED <<p_cfg, p_input_ok, p_flat, dvars, kvars, mvars, tvars>>

\* Lines 252-258, 261-271: bigmesh = ics["DM_delta"] (and the displacements);
\* the except clause prints and re-raises.
OpenIcs(w) ==
    /\ Returns(w, "ics_open")
    /\ IF p_input_ok[w]
       THEN Goto(w, "pfft", p_loc[w])
       ELSE Raise(w, "MissingInput", p_loc[w])
    /\ UNCHANGED <<p_cfg, p_input_ok, p_kcut, p_flat, dvars, kvars, mvars, tvars>>

\* Lines 273-287: fft = PFFT(...), u[:] = -bigmesh[slab].
PfftSetup(w) ==
    /\ Returns(w, "pfft")
    /\ EnterGrowthOrOn(w, [p_loc[w] EXCEPT !.u = "delta"])
    /\ UNCHANGED <<p_cfg, p_input_ok, p_kcut, p_flat, dvars, kvars, mvars, tvars>>

\* Line 284: u = apply_scale_dependent_growth(...)
ScaleDependentGrowth(w) ==
    /\ Returns(w, "sdg_fft")
    /\ EnterSurrogateOrMean(w, [p_loc[w] EXCEPT !.u = "delta_grown"])
    /\ UNCHANGED <<p_cfg, p_input_ok, p_kcut, p_flat, dvars, kvars, mvars, tvars>>

\* Lines 287-315: u_filt is back; del u; slice psi_x, psi_y, psi_z (unbound
\* unless ic_format is monofonic); ics.close(); write DM_delta_filt.
FilterDensity(w) ==
    /\ Returns(w, "filt_u")
    /\ IF p_cfg.ic_format = "monofonic"
       THEN EnterSaveFiltered(w, "DM_delta_filt", "save_delta_filt",
                              [p_loc[w] EXCEPT !.u = ""])
       ELSE Raise(w, "NameError", [p_loc[w] EXCEPT !.u = ""])
    /\ UNCHANGED <<p_cfg, p_input_ok, p_kcut, p_kcut_used, p_flat, dvars, kvars, mvars, tvars>>

\* Lines 317-348: filter the next displacement and write its dataset.
SaveFiltered(w) ==
    /\ \/ /\ Returns(w, "save_delta_filt")
          /\ EnterFilterAndSave(w, "DM_dx_filt", "save_dx_filt", p_loc[w])
       \/ /\ Returns(w, "save_dx_filt")
          /\ EnterFilterAndSave(w, "DM_dy_filt", "save_dy_filt", p_loc[w])
       \/ /\ Returns(w, "save_dy_filt")
          /\ EnterFilterAndSave(w, "DM_dz_filt", "save_dz_filt", p_loc[w])
    /\ UNCHANGED <<p_cfg, p_input_ok, p_kcut, p_flat, dvars, kvars, mvars, tvars>>

\* Lines 350-357: open the container again to read DM_delta_filt back.
SavedAll(w) ==
    /\ Returns(w, "save_dz_filt")
    /\ Goto(w, "reload", p_loc[w])
    /\ UNCHANGED <<p_cfg, p_input_ok, p_kcut, p_flat, dvars, kvars, mvars, tvars>>

\* Lines 355-362: u[:] = ics["DM_delta_filt"][slab]
Reload(w) ==
    /\ Returns(w, "reload")
    /\ EnterMeanDeltasq(w,
          [p_loc[w] EXCEPT !.u = p_ics["DM_delta_filt"][SlabStart(w, p_cfg.nmesh, p_cfg.nranks)][1]])
    /\ UNCHANGED <<p_cfg, p_input_ok, p_kcut, p_flat, dvars, kvars, mvars, tvars>>

\* Lines 362-375: d2 -= dmean; write deltasq, or go on to the forward FFT.
MeanDeltasq(w) ==
    /\ Returns(w, "mean_d2")
    /\ LET loc == [p_loc[w] EXCEPT !.d2 = "deltasq"]
       IN  IF p_cfg.save_to_disk
           THEN EnterWrite(w, "deltasq", loc.d2, "write_deltasq", loc)
           ELSE Goto(w, "fft_forward", loc)
    /\ UNCHANGED <<p_cfg, p_input_ok, p_kcut, p_flat, dvars, kvars, mvars, tvars>>

\* Line 372: u.write(..., "delta", step=2)
WriteDeltasq(w) ==
    /\ Returns(w, "write_deltasq")
    /\ EnterWrite(w, "delta", p_loc[w].u, "write_delta", p_loc[w])
    /\ UNCHANGED <<p_cfg, p_input_ok, p_kcut, p_flat, dvars, kvars, mvars, tvars>>

\* Line 375: u_hat = fft.forward(u, normalize=True)
WriteDelta(w) ==
    /\ Returns(w, "write_delta")
    /\ Goto(w, "fft_forward", p_loc[w])
    /\ UNCHANGED <<p_cfg, p_input_ok, p_kcut, p_flat, dvars, kvars, mvars, tvars>>

\* Lines 375-90: deltak = u_hat.copy(); delta_to_tidesq: first fft.backward.
ForwardFFT(w) ==
    /\ Returns(w, "fft_forward")
    /\ Goto(w, "tide_fft1", p_loc[w])
    /\ UNCHANGED <<p_cfg, p_input_ok, p_kcut, p_flat, dvars, kvars, mvars, tvars>>

\* Lines 78, 95: tidesq = np.zeros((nmesh // nranks, nmesh, nmesh));
\* tidesq += 1.0 * real_out ** 2 raises when real_out is not that thick.
TideAccumulate(w) ==
    /\ Returns(w, "tide_fft1")
    /\ IF SlabLen(w, p_cfg.nmesh, p_cfg.nranks) = TidesqThickness(p_cfg.nmesh, p_cfg.nranks)
       THEN Goto(w, "tide_fft_rest", p_loc[w])
       ELSE Raise(w, "ValueError", p_loc[w])
    /\ UNCHANGED <<p_cfg, p_input_ok, p_kcut, p_flat, dvars, kvars, mvars, tvars>>

\* Lines 102, 383-392: v[:] = tinyfft ; vmean = MPI_mean(v, nmesh)
TideDone(w) ==
    /\ Returns(w, "tide_fft_rest")
    /\ Goto(w, "mean_v", [p_loc[w] EXCEPT !.v = "s_ij*s_ij"])
    /\ UNCHANGED <<p_cfg, p_input_ok, p_kcut, p_flat, dvars, kvars, mvars, tvars>>

\* Lines 392-407: v -= vmean; write tidesq, or go on to delta_to_gradsqdelta.
MeanTidesq(w) ==
    /\ Returns(w, "mean_v")
    /\ LET loc == [p_loc[w] EXCEPT !.v = "tidesq"]
       IN  IF p_cfg.save_to_disk
           THEN EnterWrite(w, "tidesq", loc.v, "write_tidesq", loc)
           ELSE Goto(w, "grad_fft", loc)
    /\ UNCHANGED <<p_cfg, p_input_ok, p_kcut, p_flat, dvars, kvars, mvars, tvars>>

\* Lines 405-407: nablasq = delta_to_gradsqdelta(deltak, ...)
WriteTidesq(w) ==
    /\ Returns(w, "write_tidesq")
    /\ Goto(w, "grad_fft", p_loc[w])
    /\ UNCHANGED <<p_cfg, p_input_ok, p_kcut, p_flat, dvars, kvars, mvars, tvars>>

\* Lines 409-412: ns[:] = nablasq
\* if save_to_disk: v.write(..., "nablasq", step=2)
Gradsq(w) ==
    /\ Returns(w, "grad_fft")
    /\ LET loc == [p_loc[w] EXCEPT !.ns = "nablasq"]
       IN  IF p_cfg.save_to_disk
           THEN EnterWrite(w, "nablasq", loc.v, "write_nablasq", loc)
           ELSE EnterFlattenOrDone(w, loc)
    /\ UNCHANGED <<p_cfg, p_input_ok, p_kcut, p_flat, dvars, kvars, mvars, tvars>>

\* Line 417: the write of nablasq has returned.
WriteNablasq(w) ==
    /\ Returns(w, "write_nablasq")
    /\ EnterFlattenOrDone(w, p_loc[w])
    /\ UNCHANGED <<p_cfg, p_input_ok, p_kcut, p_flat, dvars, kvars, mvars, tvars>>

\* Lines 419-435, rank 0: f = h5py.File(container, "r"); np.save every key;
\* rm the container.
Flatten ==
    /\ p_pc[0] = "flatten"
    /\ p_err[0] = ""
    /\ IF p_out = <<>>
       THEN /\ p_flat' = [opened |-> FALSE, read |-> <<>>]
            /\ p_err' = [p_err EXCEPT ![0] = "OSError"]
            /\ UNCHANGED <<p_pc, p_out>>
       ELSE /\ p_flat' = [opened |-> TRUE, read |-> p_out]
            /\ p_out' = <<>>
            /\ p_pc' = [p_pc EXCEPT ![0] = "done"]
            /\ UNCHANGED p_err
    /\ UNCHANGED <<p_cfg, p_input_ok, p_kcut, p_kcut_used, p_loc, p_ics,
                   dvars, kvars, mvars, tvars>>

Next ==
    \/ \E w \in Workers : Start(w)
    \/ \E w \in Workers : OpenIcs(w)
    \/ \E w \in Workers : PfftSetup(w)
    \/ \E w \in Workers : ScaleDependentGrowth(w)
    \/ \E w \in Workers : FilterDensity(w)
    \/ \E w \in Workers : SaveFiltered(w)
    \/ \E w \in Workers : SavedAll(w)
    \/ \E w \in Workers : Reload(w)
    \/ \E w \in Workers : MeanDeltasq(w)
    \/ \E w \in Workers : WriteDeltasq(w)
    \/ \E w \in Workers : WriteDelta(w)
    \/ \E w \in Workers : ForwardFFT(w)
    \/ \E w \in Workers : TideAccumulate(w)
    \/ \E w \in Workers : TideDone(w)
    \/ \E w \in Workers : MeanTidesq(w)
    \/ \E w \in Workers : WriteTidesq(w)
    \/ \E w \in Workers : Gradsq(w)
    \/ \E w \in Workers : WriteNablasq(w)
    \/ Flatten

Spec == Init /\ [][Next]_vars

\* Worker w's call of <array>.write(..., name, ...) has been made.
Wrote(w, name) ==
    /\ p_cfg.save_to_disk
    /\ Idx(p_pc[w]) >= Idx(name)

\* C1: with save_to_disk, once a worker has written 'tidesq' and 'nablasq',
\* its planes of dataset 'nablasq' hold its Laplacian array ns and its planes
\* of 'tidesq' hold its mean-subtracted tidal array v.
C1_DatasetsHoldTheirFields ==
    \A w \in Workers :
       (Wrote(w, "write_nablasq") /\ p_out # <<>>) =>
          \A pl \in MyPlanes(w) :
             /\ p_out["nablasq"][pl] = <<p_loc[w].ns, "this run">>
             /\ p_out["tidesq"][pl] = <<p_loc[w].v, "this run">>

\* C5: whenever rank 0's flattening step opens the container, the container
\* exists and every plane of all four fields in it was written by this run.
C5_StoreThenFlatten ==
    p_flat # <<>> =>
       /\ p_flat.opened
       /\ \A n \in OutNames : \A pl \in Planes :
             /\ p_flat.read[n] # <<>>
             /\ p_flat.read[n][pl][2] = "this run"
             /\ p_flat.read[n][pl][1] # "unwritten"

\* The cutoff C6 expects: the configured one, or the default pi*nmesh/Lbox.
ExpectedCutoff ==
    IF p_cfg.surrogate_gaussian_cutoff = 0
    THEN p_cfg.nmesh
    ELSE p_cfg.surrogate_gaussian_cutoff

\* C6: in surrogate mode every gaussian_filter call uses the configured cutoff,
\* or the default when none is configured, and no worker fails for want of one.
C6_CutoffDefaultOrExplicit ==
    p_cfg.compute_cv_surrogate =>
       \A w \in Workers :
          /\ p_kcut_used[w] \subseteq {ExpectedCutoff}
          /\ p_err[w] # "UnboundLocalError"

\* C10: once loading the input has failed on a worker, no worker is inside or
\* past a later collective (the transform setup and all that follows it).
C10_MissingInputAbortsAll ==
    (\E w \in Workers : p_err[w] = "MissingInput") =>
       \A v \in Workers : Idx(p_pc[v]) < Idx("pfft")

\* C13: a surrogate run over an initial-conditions container that already holds
\* DM_delta_filt, DM_dx_filt, DM_dy_filt and DM_dz_filt never fails because they
\* exist, and once every worker has written them they hold this run's filtered fields.
C13_RerunOverFilteredDatasets ==
    /\ \A w \in Workers :
          ~(/\ p_err[w] = "ValueError"
            /\ p_pc[w] \in {"filt_u", "save_delta_filt", "save_dx_filt", "save_dy_filt"})
    /\ (/\ p_cfg.compute_cv_surrogate
        /\ \A w \in Workers : Idx(p_pc[w]) >= Idx("reload"))
       => \A n \in FiltNames : \A pl \in Planes : p_ics[n][pl] = <<n, "this run">>

(***************************************************************************)
(* SpecTide: the accumulation loop of delta_to_tidesq at one grid cell.    *)
(*     for i in range(len(klist)):                                         *)
(*         real_out = fft.backward(fft_tide)                               *)
(*         tidesq += 1.0 * real_out ** 2                                   *)
(*         if jvec[i][0] != jvec[i][1]:                                    *)
(*             tidesq += 1.0 * real_out ** 2                               *)
(* t_real[i + 1] is real_out of iteration i at the cell: the component     *)
(* s_ab of the tidal tensor with <<a, b>> = jvec[i].                       *)
(***************************************************************************)
AccumulateOnce(tidesq, real_out, i) == tidesq + real_out * real_out

\* One pass of the loop body, lines 95-97, for the 0-based index i.
Accumulate(tidesq, real_out, i) ==
    LET once == tidesq + real_out * real_out
    IN  IF jvec[i + 1][1] # jvec[i + 1][2]
        THEN once + real_out * real_out
        ELSE once

TideInit ==
    /\ t_real \in [1 .. 6 -> (-TideMaxVal) .. TideMaxVal]
    /\ t_i = 0
    /\ t_tidesq = 0
    /\ DecompIdle
    /\ KernelsIdle
    /\ MeanIdle
    /\ PipeIdle

TideLoopBody ==
    /\ t_i < Len(jvec)
    /\ t_tidesq' = Accumulate(t_tidesq, t_real[t_i + 1], t_i)
    /\ t_i' = t_i + 1
    /\ UNCHANGED <<t_real, dvars, kvars, mvars, pvars>>

TideNext == TideLoopBody

SpecTide == TideInit /\ [][TideNext]_vars

\* Entry <<a, b>> of the symmetric 3x3 tensor s: the real_out of the pair of
\* jvec that holds a and b in either order.
TensorEntry(a, b) ==
    LET i == CHOOSE j \in 1 .. Len(jvec) : jvec[j] = <<a, b>> \/ jvec[j] = <<b, a>>
    IN  t_real[i]

RECURSIVE SumSquares(_)
\* The sum of s_ab^2 over the entries <<a, b>> in S.
SumSquares(S) ==
    IF S = {} THEN 0
    ELSE LET e == CHOOSE x \in S : TRUE
         IN  TensorEntry(e[1], e[2]) * TensorEntry(e[1], e[2]) + SumSquares(S \ {e})

\* C11: when the loop over the 6 index pairs has ended, tidesq at the cell is
\* the sum of s_ab^2 over all 9 entries of the symmetric tensor; it is never
\* negative.
C11_TidalSquaredAccumulation ==
    /\ t_tidesq >= 0
    /\ t_i = Len(jvec) => t_tidesq = SumSquares((0 .. 2) \X (0 .. 2))

\* The loop has ended on a tensor whose off-diagonal entries are not all zero.
C11_Witness ==
    /\ t_i = Len(jvec)
    /\ t_real # <<>>
    /\ t_real[2] # 0
    /\ t_real[5] # 0
    /\ t_real[1] # 0
    /\ t_tidesq > 0

====
